---- MODULE Spec2Model ----
(***************************************************************************)
(* A model of twitterfeed's TweetReader.Run (src/twitter.go): the stream   *)
(* pump goroutine, the keepalive recycler goroutine, the Transport.Dial    *)
(* hook with its connLock/conn registry, the unbuffered tweetsChan and its *)
(* consumer, the cancellation context, and the pure function foundTerms.   *)
(*                                                                         *)
(* Strings are sequences of one-character strings.  A net.Conn is a handle *)
(* 1..MaxDials; 0 is nil.  The remote server, the network, the consumer    *)
(* and the caller's cancel function are the environment.                   *)
(***************************************************************************)
EXTENDS Naturals, Sequences, FiniteSets

\* ------------------------------------------------------------------ bounds
\* dials that can succeed in one session (later dials report an error)
MaxDials == 2
\* body fragments the remote server sends in one session
MaxSend == 4
\* where the count of consecutive failed iterations saturates
MaxFails == 2
\* foundTerms inputs: longest text, longest term list
MaxTextLen == 3
MaxTerms == 2

\* ----------------------------------------------------------------- strings
Chars == {"a", "A", "b", "B"}

Range(s) == {s[i] : i \in 1..Len(s)}

\* unicode.ToLower on the modelled alphabet
LowerCh(c) == CASE c = "A" -> "a" [] c = "B" -> "b" [] OTHER -> c

\* strings.ToLower
ToLower(s) == [i \in 1..Len(s) |-> LowerCh(s[i])]

\* strings.Contains: scan the start offsets left to right
RECURSIVE ContainsFrom(_, _, _)
ContainsFrom(s, substr, i) ==
    IF i + Len(substr) > Len(s) THEN FALSE
    ELSE IF SubSeq(s, i + 1, i + Len(substr)) = substr THEN TRUE
    ELSE ContainsFrom(s, substr, i + 1)

Contains(s, substr) == ContainsFrom(s, substr, 0)

\* strings.Join(terms, ",")
RECURSIVE Join(_)
Join(ts) ==
    IF Len(ts) = 0 THEN <<>>
    ELSE IF Len(ts) = 1 THEN ts[1]
    ELSE ts[1] \o <<",">> \o Join(Tail(ts))

\* -------------------------------------------------------------- foundTerms
\* one iteration of foundTerms' range loop; text is already lower-cased
FoundStepLowerAppend(text, term, found) ==
    IF Contains(text, ToLower(term)) THEN Append(found, ToLower(term)) ELSE found

FoundStep(text, term, found) ==
    IF Contains(text, ToLower(term)) THEN Append(found, term) ELSE found

RECURSIVE FoundLoop(_, _, _, _)
FoundLoop(text, ts, i, found) ==
    IF i > Len(ts) THEN found
    ELSE FoundLoop(text, ts, i + 1, FoundStep(text, ts[i], found))

foundTerms(text, ts) == FoundLoop(ToLower(text), ts, 1, <<>>)

\* ------------------------------------------------------------------- state
VARIABLES
    terms,       \* Run's variadic terms argument
    ctxDone,     \* ctx.Done() is closed
    connLock,    \* holder of connLock: "free", "dial" or "recycler"
    conn,        \* the registry slot (var conn net.Conn); 0 is nil
    netc,        \* the dial hook's local netc; 0 before DialTimeout returns
    relOld,      \* the handle the running dial hook found in conn and closed
    nDials,      \* handles dialed so far; handle ids are 1..nDials
    open,        \* handles on which no Close has taken effect yet
    regCloses,   \* per handle, the conn.Close() calls made by registry code
    pumpPc,      \* position of the stream pump goroutine
    req,         \* the request built this iteration (its track parameter)
    cur,         \* the handle resp was received on; 0 when there is no resp
    status,      \* resp.StatusCode as sent by the server; 0: no header yet
    wire,        \* body fragments sent by the server and not yet read
    rbuf,        \* body fragments read and not yet decoded
    srvEOF,      \* the server ended the stream of the current connection
    srvHalf,     \* the record whose first fragment alone has been sent
    nSent,       \* body fragments sent in this session
    sentRecs,    \* texts of the records sent whole on the current connection
    t,           \* the decode loop's var t Tweet, while it is being sent
    chanClosed,  \* tweetsChan is closed
    chanCloses,  \* close(tweetsChan) calls
    delivered,   \* what the consumer has received from tweetsChan, in order
    rpc,         \* position of the keepalive recycler goroutine
    fails,       \* consecutive pump iterations that failed (saturating)
    lastFail,    \* how the last failed iteration failed
    nonOK,       \* the handles whose response carried a status other than 200
    regSeq,      \* how far the last registry operations match the sequence
                 \* replace(A) on the empty slot, replace(B), close, close
    ft           \* one call of foundTerms, stepped through its loop

vars == <<terms, ctxDone, connLock, conn, netc, relOld, nDials, open,
          regCloses, pumpPc, req, cur, status, wire, rbuf, srvEOF, srvHalf,
          nSent, sentRecs, t, chanClosed, chanCloses, delivered, rpc, fails,
          lastFail, nonOK, regSeq, ft>>

registryVars == <<connLock, conn, netc, relOld, nDials, open, regCloses, regSeq>>
connVars == <<cur, status, wire, rbuf, srvEOF, srvHalf, sentRecs>>
chanVars == <<t, chanClosed, chanCloses, delivered>>

Handles == 1..MaxDials
NoTweet == [Text |-> <<>>, Terms |-> <<>>, late |-> FALSE]
NoReq == [track |-> <<"-">>]
NoFail == [kind |-> "none", partial |-> FALSE]
FtIdle == [pc |-> "off", arg |-> <<>>, text |-> <<>>, terms |-> <<>>, i |-> 0,
           found |-> <<>>]

\* the term list Run is called with, and the texts the server's records carry
RunTerms == { << <<"a", "b">>, <<"B">> >> }
Texts == { <<"B", "a">>, <<"A", "b">> }

\* body fragments: a record travels as a head and a tail fragment; "bad" is
\* a fragment that is not JSON; "line" is a line of a non-200 body
HeadFrag(x) == [k |-> "head", x |-> x]
TailFrag(x) == [k |-> "tail", x |-> x]
Bad == [k |-> "bad", x |-> <<>>]
Line == [k |-> "line", x |-> <<>>]

\* http.StatusOK, and the status codes the server answers with
StatusOK == 200
Statuses == {StatusOK, 420}

Init ==
    /\ terms \in RunTerms
    /\ ctxDone = FALSE
    /\ connLock = "free"
    /\ conn = 0
    /\ netc = 0
    /\ relOld = 0
    /\ nDials = 0
    /\ open = {}
    /\ regCloses = [h \in Handles |-> 0]
    /\ pumpPc = "idle"
    /\ req = NoReq
    /\ cur = 0
    /\ status = 0
    /\ wire = <<>>
    /\ rbuf = <<>>
    /\ srvEOF = FALSE
    /\ srvHalf = <<>>
    /\ nSent = 0
    /\ sentRecs = <<>>
    /\ t = NoTweet
    /\ chanClosed = FALSE
    /\ chanCloses = 0
    /\ delivered = <<>>
    /\ rpc = "select"
    /\ fails = 0
    /\ lastFail = NoFail
    /\ nonOK = {}
    /\ regSeq = 0
    /\ ft = FtIdle

\* ------------------------------------------------------ connection registry
\* conn.Close() on handle h by registry code (the dial hook or the recycler)
RegClose(h) ==
    /\ open' = open \ {h}
    /\ regCloses' = [regCloses EXCEPT ![h] = @ + 1]

\* regSeq after the dial hook stored handle h, having closed handle old
SeqAfterReplace(h, old) ==
    IF regSeq = 1 /\ old # 0 THEN 2
    ELSE IF old = 0 THEN 1
    ELSE 0

\* regSeq after the recycler's close of the slot, which held handle h
SeqAfterClose(h) ==
    IF regSeq = 2 /\ h # 0 THEN 3
    ELSE IF regSeq = 3 /\ h = 0 THEN 4
    ELSE 0

\* the pump leaves the current response behind (continue, or the decode
\* loop's break): nothing of it is read any more
DropResp ==
    /\ cur' = 0
    /\ status' = 0
    /\ wire' = <<>>
    /\ rbuf' = <<>>
    /\ srvEOF' = FALSE
    /\ srvHalf' = <<>>
    /\ sentRecs' = <<>>

\* an iteration ended in continue or in the decode loop's break
Failed(kind) ==
    /\ fails' = IF fails < MaxFails THEN fails + 1 ELSE fails
    /\ lastFail' = [kind |-> kind, partial |-> rbuf # <<>>]

\* a mutex whose Lock never waits
LockNeverWaits == TRUE

\* connLock.Lock() returns only while nobody holds the mutex
CanLock == connLock = "free"

\* --------------------------------------------------------------- recycler
\* a ctx.Done() case that also closes tweetsChan
RecyclerSelectDoneClosesChan ==
    /\ rpc = "select"
    /\ ctxDone
    /\ rpc' = "done_lock"
    /\ chanClosed' = TRUE
    /\ chanCloses' = chanCloses + 1
    /\ UNCHANGED <<terms, ctxDone, registryVars, pumpPc, req, connVars, nSent,
                   t, delivered, fails, lastFail, nonOK, ft>>

\* a select whose ctx.Done() case is taken whether or not ctx is done
RecyclerSelectDoneAnytime ==
    /\ rpc = "select"
    /\ rpc' = "done_lock"
    /\ UNCHANGED <<terms, ctxDone, registryVars, pumpPc, req, connVars, nSent,
                   chanVars, fails, lastFail, nonOK, ft>>

\* select: case <-ctx.Done()
RecyclerSelectDone ==
    /\ rpc = "select"
    /\ ctxDone
    /\ rpc' = "done_lock"
    /\ UNCHANGED <<terms, ctxDone, registryVars, pumpPc, req, connVars, nSent,
                   chanVars, fails, lastFail, nonOK, ft>>

\* select: case <-time.After(2 * time.Minute)
RecyclerSelectTimer ==
    /\ rpc = "select"
    /\ rpc' = "timer_lock"
    /\ UNCHANGED <<terms, ctxDone, registryVars, pumpPc, req, connVars, nSent,
                   chanVars, fails, lastFail, nonOK, ft>>

\* connLock.Lock() in either branch
RecyclerLock ==
    /\ rpc \in {"done_lock", "timer_lock"}
    /\ CanLock
    /\ connLock' = "recycler"
    /\ rpc' = IF rpc = "done_lock" THEN "done_close" ELSE "timer_close"
    /\ UNCHANGED <<terms, ctxDone, conn, netc, relOld, nDials, open, regCloses,
                   regSeq, pumpPc, req, connVars, nSent, chanVars, fails, lastFail, nonOK, ft>>

\* if conn != nil { conn.Close() ...; with a nil conn the branch goes straight
\* to connLock.Unlock()
RecyclerClose ==
    /\ rpc \in {"done_close", "timer_close"}
    /\ IF conn # 0
         THEN /\ RegClose(conn)
              /\ rpc' = IF rpc = "done_close" THEN "done_clear" ELSE "timer_clear"
              /\ UNCHANGED <<connLock, regSeq>>
         ELSE /\ connLock' = "free"
              /\ regSeq' = SeqAfterClose(0)
              /\ rpc' = IF rpc = "done_close" THEN "done" ELSE "select"
              /\ UNCHANGED <<open, regCloses>>
    /\ UNCHANGED <<terms, ctxDone, conn, netc, relOld, nDials, pumpPc, req,
                   connVars, nSent, chanVars, fails, lastFail, nonOK, ft>>

\* ... conn = nil }; connLock.Unlock(); return (ctx.Done) or loop (timer)
RecyclerClear ==
    /\ rpc \in {"done_clear", "timer_clear"}
    /\ regSeq' = SeqAfterClose(conn)
    /\ conn' = 0
    /\ connLock' = "free"
    /\ rpc' = IF rpc = "done_clear" THEN "done" ELSE "select"
    /\ UNCHANGED <<terms, ctxDone, netc, relOld, nDials, open, regCloses,
                   pumpPc, req, connVars, nSent, chanVars, fails, lastFail, nonOK, ft>>

RecyclerNext ==
    \/ RecyclerSelectDone
    \/ RecyclerSelectTimer
    \/ RecyclerLock
    \/ RecyclerClose
    \/ RecyclerClear

\* ------------------------------------------------------------- stream pump
\* the select with its return left out: the channel is closed and the loop
\* goes on
PumpCheckCtxNoReturn ==
    /\ pumpPc = "idle"
    /\ IF ctxDone /\ chanCloses < 2
         THEN /\ chanClosed' = TRUE
              /\ chanCloses' = chanCloses + 1
         ELSE UNCHANGED <<chanClosed, chanCloses>>
    /\ pumpPc' = "build"
    /\ UNCHANGED <<terms, ctxDone, registryVars, req, connVars, nSent, t,
                   delivered, rpc, fails, lastFail, nonOK, ft>>

\* the loop without its select: every iteration goes on to the request
PumpSkipCheck ==
    /\ pumpPc = "idle"
    /\ pumpPc' = "build"
    /\ UNCHANGED <<terms, ctxDone, registryVars, req, connVars, nSent,
                   chanVars, rpc, fails, lastFail, nonOK, ft>>

\* select { case <-ctx.Done(): return (then the deferred close(tweetsChan))
\*          default: ... }
PumpCheckCtx ==
    /\ pumpPc = "idle"
    /\ IF ctxDone
         THEN /\ pumpPc' = "done"
              /\ chanClosed' = TRUE
              /\ chanCloses' = chanCloses + 1
         ELSE /\ pumpPc' = "build"
              /\ UNCHANGED <<chanClosed, chanCloses>>
    /\ UNCHANGED <<terms, ctxDone, registryVars, req, connVars, nSent, t,
                   delivered, rpc, fails, lastFail, nonOK, ft>>

\* the request of this iteration: form track = strings.Join(terms, ",")
NewRequest == [track |-> Join(terms)]

\* url.Values, http.NewRequest and the three headers
PumpBuild ==
    /\ pumpPc = "build"
    /\ req' = NewRequest
    /\ pumpPc' = "do"
    /\ UNCHANGED <<terms, ctxDone, registryVars, connVars, nSent, chanVars,
                   rpc, fails, lastFail, nonOK, ft>>

\* http.NewRequest returned an error: log, continue
PumpBuildErr ==
    /\ pumpPc = "build"
    /\ pumpPc' = "idle"
    /\ Failed("build")
    /\ UNCHANGED <<terms, ctxDone, registryVars, req, connVars, nSent,
                   chanVars, rpc, nonOK, ft>>

\* client.Do(req) reaches the Dial hook: connLock.Lock()
DialLock ==
    /\ pumpPc = "do"
    /\ CanLock
    /\ connLock' = "dial"
    /\ pumpPc' = "dial_close"
    /\ lastFail' = NoFail
    /\ UNCHANGED <<terms, ctxDone, conn, netc, relOld, nDials, open, regCloses,
                   regSeq, req, connVars, nSent, chanVars, rpc, fails, nonOK, ft>>

\* the hook without its first four lines: the slot is overwritten with the
\* old connection still in it
DialSkipCloseOld ==
    /\ pumpPc = "dial_close"
    /\ relOld' = conn
    /\ pumpPc' = "dial_net"
    /\ UNCHANGED <<terms, ctxDone, connLock, conn, netc, nDials, open,
                   regCloses, regSeq, req, connVars, nSent, chanVars, rpc,
                   fails, lastFail, nonOK, ft>>

\* the hook forgetting the old connection without closing it
DialCloseOldLeak ==
    /\ pumpPc = "dial_close"
    /\ relOld' = conn
    /\ conn' = 0
    /\ pumpPc' = "dial_net"
    /\ UNCHANGED <<terms, ctxDone, connLock, netc, nDials, open, regCloses,
                   regSeq, req, connVars, nSent, chanVars, rpc, fails,
                   lastFail, nonOK, ft>>

\* if conn != nil { conn.Close(); conn = nil }
DialCloseOld ==
    /\ pumpPc = "dial_close"
    /\ IF conn # 0 THEN RegClose(conn) ELSE UNCHANGED <<open, regCloses>>
    /\ relOld' = conn
    /\ conn' = 0
    /\ pumpPc' = "dial_net"
    /\ UNCHANGED <<terms, ctxDone, connLock, netc, nDials, regSeq, req,
                   connVars, nSent, chanVars, rpc, fails, lastFail, nonOK, ft>>

\* net.DialTimeout returned a connection
DialNetOk ==
    /\ pumpPc = "dial_net"
    /\ nDials < MaxDials
    /\ nDials' = nDials + 1
    /\ netc' = nDials + 1
    /\ open' = open \cup {nDials + 1}
    /\ pumpPc' = "dial_store"
    /\ UNCHANGED <<terms, ctxDone, connLock, conn, relOld, regCloses, regSeq,
                   req, connVars, nSent, chanVars, rpc, fails, lastFail, nonOK, ft>>

\* net.DialTimeout returned an error: return nil, err (the deferred Unlock
\* runs), client.Do returns the error, the pump logs it and continues
DialNetErr ==
    /\ pumpPc = "dial_net"
    /\ connLock' = "free"
    /\ regSeq' = 0
    /\ relOld' = 0
    /\ pumpPc' = "idle"
    /\ Failed("dial")
    /\ UNCHANGED <<terms, ctxDone, conn, netc, nDials, open, regCloses, req,
                   connVars, nSent, chanVars, rpc, nonOK, ft>>

\* the hook returning the connection without the assignment conn = netc
DialStoreForget ==
    /\ pumpPc = "dial_store"
    /\ regSeq' = SeqAfterReplace(netc, relOld)
    /\ connLock' = "free"
    /\ netc' = 0
    /\ relOld' = 0
    /\ cur' = netc
    /\ pumpPc' = "await"
    /\ UNCHANGED <<terms, ctxDone, conn, nDials, open, regCloses, req, status,
                   wire, rbuf, srvEOF, srvHalf, sentRecs, nSent, chanVars,
                   rpc, fails, lastFail, nonOK, ft>>

\* conn = netc; return netc, nil (the deferred Unlock runs); the transport
\* writes the request on the new connection and waits for the response
DialStore ==
    /\ pumpPc = "dial_store"
    /\ conn' = netc
    /\ regSeq' = SeqAfterReplace(netc, relOld)
    /\ connLock' = "free"
    /\ netc' = 0
    /\ relOld' = 0
    /\ cur' = netc
    /\ pumpPc' = "await"
    /\ UNCHANGED <<terms, ctxDone, nDials, open, regCloses, req, status, wire,
                   rbuf, srvEOF, srvHalf, sentRecs, nSent, chanVars, rpc,
                   fails, lastFail, nonOK, ft>>

\* client.Do returned an error: the socket was closed under the request, or
\* the server went away before answering (the transport closes the broken
\* connection); log, continue
PumpDoErr ==
    /\ pumpPc = "await"
    /\ \/ cur \notin open
       \/ status = 0 /\ srvEOF
    /\ open' = open \ {cur}
    /\ DropResp
    /\ pumpPc' = "idle"
    /\ Failed("do")
    /\ UNCHANGED <<terms, ctxDone, connLock, conn, netc, relOld, nDials,
                   regCloses, regSeq, req, nSent, chanVars, rpc, nonOK, ft>>

\* the response taken to the decoder whatever its status
PumpRespAnyStatus ==
    /\ pumpPc = "await"
    /\ cur \in open
    /\ status # 0
    /\ pumpPc' = "decode"
    /\ nonOK' = IF status # StatusOK THEN nonOK \cup {cur} ELSE nonOK
    /\ UNCHANGED <<terms, ctxDone, registryVars, req, connVars, nSent,
                   chanVars, rpc, fails, lastFail, ft>>

\* client.Do returned a response: if resp.StatusCode != http.StatusOK
PumpResp ==
    /\ pumpPc = "await"
    /\ cur \in open
    /\ status # 0
    /\ pumpPc' = IF status # StatusOK THEN "scan" ELSE "decode"
    /\ nonOK' = IF status # StatusOK THEN nonOK \cup {cur} ELSE nonOK
    /\ UNCHANGED <<terms, ctxDone, registryVars, req, connVars, nSent,
                   chanVars, rpc, fails, lastFail, ft>>

\* the status branch ending in return instead of continue
PumpScanReturn ==
    /\ pumpPc = "scan"
    /\ \/ wire # <<>>
       \/ cur \notin open
       \/ srvEOF
    /\ DropResp
    /\ pumpPc' = "done"
    /\ chanClosed' = TRUE
    /\ chanCloses' = chanCloses + 1
    /\ Failed("status")
    /\ UNCHANGED <<terms, ctxDone, registryVars, req, nSent, t, delivered, rpc,
                   nonOK, ft>>

\* s.Scan() returned (a line, the end of the body, or a read error); the two
\* log lines; continue.  resp.Body is not closed on this path.
PumpScan ==
    /\ pumpPc = "scan"
    /\ \/ wire # <<>>
       \/ cur \notin open
       \/ srvEOF
    /\ DropResp
    /\ pumpPc' = "idle"
    /\ Failed("status")
    /\ UNCHANGED <<terms, ctxDone, registryVars, req, nSent, chanVars, rpc, nonOK, ft>>

\* the decoder holds a whole record / a fragment that is not JSON
HasRecord(buf) == Len(buf) >= 2 /\ buf[1].k = "head" /\ buf[2].k = "tail"
HasGarbage(buf) == Len(buf) >= 1 /\ buf[1].k # "head"

\* decoder.Decode needs more input and the socket has some: the Read takes
\* the fragments that have arrived
PumpRead ==
    /\ pumpPc = "decode"
    /\ ~HasRecord(rbuf) /\ ~HasGarbage(rbuf)
    /\ cur \in open
    /\ wire # <<>>
    /\ rbuf' = rbuf \o wire
    /\ wire' = <<>>
    /\ UNCHANGED <<terms, ctxDone, registryVars, pumpPc, req, cur, status,
                   srvEOF, srvHalf, sentRecs, nSent, chanVars, rpc, fails,
                   lastFail, nonOK, ft>>

\* the Tweet the loop sends for a decoded record with text x
Annotate(x) == [Text |-> x, Terms |-> foundTerms(x, terms)]

\* a decode that throws away what the decoder had read beyond the record
PumpDecodeDropBuffered ==
    /\ pumpPc = "decode"
    /\ HasRecord(rbuf)
    /\ t' = [Text |-> Annotate(rbuf[1].x).Text,
             Terms |-> Annotate(rbuf[1].x).Terms,
             late |-> ctxDone]
    /\ rbuf' = <<>>
    /\ pumpPc' = "send"
    /\ fails' = 0
    /\ lastFail' = NoFail
    /\ UNCHANGED <<terms, ctxDone, registryVars, req, cur, status, wire,
                   srvEOF, srvHalf, sentRecs, nSent, chanClosed, chanCloses,
                   delivered, rpc, nonOK, ft>>

\* decoder.Decode(&t) returned nil; t.Terms = foundTerms(t.Text, terms...);
\* the pump arrives at tweetsChan <- t
PumpDecode ==
    /\ pumpPc = "decode"
    /\ HasRecord(rbuf)
    /\ t' = [Text |-> Annotate(rbuf[1].x).Text,
             Terms |-> Annotate(rbuf[1].x).Terms,
             late |-> ctxDone]
    /\ rbuf' = SubSeq(rbuf, 3, Len(rbuf))
    /\ pumpPc' = "send"
    /\ fails' = 0
    /\ lastFail' = NoFail
    /\ UNCHANGED <<terms, ctxDone, registryVars, req, cur, status, wire,
                   srvEOF, srvHalf, sentRecs, nSent, chanClosed, chanCloses,
                   delivered, rpc, nonOK, ft>>

\* a read that does not fail on a socket closed under it
DecodeFailsBlindToClose ==
    \/ HasGarbage(rbuf)
    \/ /\ ~HasRecord(rbuf)
       /\ cur \in open
       /\ wire = <<>> /\ srvEOF

\* decoder.Decode cannot return a record: what it holds is not JSON, or it
\* needs more input and the read fails (socket closed, or end of stream)
DecodeFails ==
    \/ HasGarbage(rbuf)
    \/ /\ ~HasRecord(rbuf)
       /\ \/ cur \notin open
          \/ wire = <<>> /\ srvEOF

\* which of the three it is
DecodeFailure ==
    IF HasGarbage(rbuf) THEN "garbage"
    ELSE IF cur \notin open THEN "severed"
    ELSE "eof"

\* a loop that passes over input that is not JSON and goes on decoding
PumpDecodeErrSkips ==
    /\ pumpPc = "decode"
    /\ DecodeFails
    /\ IF HasGarbage(rbuf)
         THEN /\ rbuf' = Tail(rbuf)
              /\ UNCHANGED <<open, cur, status, wire, srvEOF, srvHalf,
                             sentRecs, pumpPc, fails, lastFail>>
         ELSE /\ open' = open \ {cur}
              /\ DropResp
              /\ pumpPc' = "idle"
              /\ Failed(DecodeFailure)
    /\ UNCHANGED <<terms, ctxDone, connLock, conn, netc, relOld, nDials,
                   regCloses, regSeq, req, nSent, chanVars, rpc, nonOK, ft>>

\* decoder.Decode returned an error: break; the deferred resp.Body.Close()
\* makes the transport close the connection of the unfinished body
PumpDecodeErr ==
    /\ pumpPc = "decode"
    /\ DecodeFails
    /\ open' = open \ {cur}
    /\ DropResp
    /\ pumpPc' = "idle"
    /\ Failed(DecodeFailure)
    /\ UNCHANGED <<terms, ctxDone, connLock, conn, netc, relOld, nDials,
                   regCloses, regSeq, req, nSent, chanVars, rpc, nonOK, ft>>

PumpNext ==
    \/ PumpCheckCtx
    \/ PumpBuild
    \/ PumpBuildErr
    \/ DialLock
    \/ DialCloseOld
    \/ DialNetOk
    \/ DialNetErr
    \/ DialStore
    \/ PumpDoErr
    \/ PumpResp
    \/ PumpScan
    \/ PumpRead
    \/ PumpDecode
    \/ PumpDecodeErr

\* ------------------------------------------------------------- environment
\* the consumer receives from tweetsChan: the pump's send completes
Receive ==
    /\ pumpPc = "send"
    /\ delivered' = Append(delivered, [Text |-> t.Text, Terms |-> t.Terms,
                                       late |-> t.late, conn |-> cur])
    /\ t' = NoTweet
    /\ pumpPc' = "decode"
    /\ UNCHANGED <<terms, ctxDone, registryVars, req, connVars, nSent,
                   chanClosed, chanCloses, rpc, fails, lastFail, nonOK, ft>>

\* the caller cancels ctx (or its deadline passes)
Cancel ==
    /\ ~ctxDone
    /\ ctxDone' = TRUE
    /\ UNCHANGED <<terms, registryVars, pumpPc, req, connVars, nSent, chanVars,
                   rpc, fails, lastFail, nonOK, ft>>

\* the pump holds a connection on which a request was written
OnConn == pumpPc \in {"await", "scan", "decode", "send"}

\* the server answers the request with a status line and headers
ServerRespond ==
    /\ pumpPc = "await"
    /\ status = 0 /\ ~srvEOF
    /\ cur \in open
    /\ status' \in Statuses
    /\ UNCHANGED <<terms, ctxDone, registryVars, pumpPc, req, cur, wire, rbuf,
                   srvEOF, srvHalf, sentRecs, nSent, chanVars, rpc, fails, lastFail, nonOK, ft>>

\* the next body fragment of a 200 response: the rest of the record under
\* way, else the start of a record or something that is not JSON
NextFrags ==
    IF srvHalf # <<>> THEN {TailFrag(srvHalf[1])}
    ELSE {HeadFrag(x) : x \in Texts} \cup {Bad}

\* the server sends one more fragment of the response body
ServerSend ==
    /\ pumpPc \in {"scan", "decode", "send"}
    /\ status # 0 /\ ~srvEOF
    /\ cur \in open
    /\ nSent < MaxSend
    /\ nSent' = nSent + 1
    /\ \E f \in (IF status = StatusOK THEN NextFrags ELSE {Line}) :
         /\ wire' = Append(wire, f)
         /\ srvHalf' = IF f.k = "head" THEN <<f.x>> ELSE <<>>
         /\ sentRecs' = IF f.k = "tail" THEN Append(sentRecs, f.x) ELSE sentRecs
    /\ UNCHANGED <<terms, ctxDone, registryVars, pumpPc, req, cur, status,
                   rbuf, srvEOF, chanVars, rpc, fails, lastFail, nonOK, ft>>

\* the server ends the stream, or the network drops the connection
ServerEOF ==
    /\ OnConn
    /\ ~srvEOF
    /\ cur \in open
    /\ srvEOF' = TRUE
    /\ UNCHANGED <<terms, ctxDone, registryVars, pumpPc, req, cur, status,
                   wire, rbuf, srvHalf, sentRecs, nSent, chanVars, rpc, fails,
                   lastFail, nonOK, ft>>

EnvNext == Cancel \/ ServerRespond \/ ServerSend \/ ServerEOF

Next == PumpNext \/ RecyclerNext \/ Receive \/ EnvNext

Spec == Init /\ [][Next]_vars

\* ------------------------------------------- foundTerms, one call in steps
\* every string of at most n characters
RECURSIVE StrsUpTo(_)
StrsUpTo(n) ==
    IF n = 0 THEN {<<>>}
    ELSE StrsUpTo(n - 1) \cup
         {Append(s, c) : s \in {x \in StrsUpTo(n - 1) : Len(x) = n - 1}, c \in Chars}

\* the terms a call is tried with, and every list of at most n of them
TermPool == {<<>>, <<"a">>, <<"B">>, <<"a", "B">>, <<"b", "a">>, <<"A", "A">>}

RECURSIVE ListsUpTo(_)
ListsUpTo(n) ==
    IF n = 0 THEN {<<>>}
    ELSE ListsUpTo(n - 1) \cup
         {Append(l, x) : l \in {y \in ListsUpTo(n - 1) : Len(y) = n - 1}, x \in TermPool}

\* a call foundTerms(text, terms...) with no session running
MatchInit ==
    /\ terms = <<>>
    /\ ctxDone = FALSE
    /\ connLock = "free"
    /\ conn = 0
    /\ netc = 0
    /\ relOld = 0
    /\ nDials = 0
    /\ open = {}
    /\ regCloses = [h \in Handles |-> 0]
    /\ pumpPc = "none"
    /\ req = NoReq
    /\ cur = 0
    /\ status = 0
    /\ wire = <<>>
    /\ rbuf = <<>>
    /\ srvEOF = FALSE
    /\ srvHalf = <<>>
    /\ nSent = 0
    /\ sentRecs = <<>>
    /\ t = NoTweet
    /\ chanClosed = FALSE
    /\ chanCloses = 0
    /\ delivered = <<>>
    /\ rpc = "none"
    /\ fails = 0
    /\ lastFail = NoFail
    /\ nonOK = {}
    /\ regSeq = 0
    /\ \E x \in StrsUpTo(MaxTextLen), ts \in ListsUpTo(MaxTerms) :
         ft = [pc |-> "call", arg |-> x, text |-> x, terms |-> ts, i |-> 0,
               found |-> <<>>]

sessionVars == <<terms, ctxDone, registryVars, pumpPc, req, connVars, nSent,
                 chanVars, rpc, fails, lastFail, nonOK>>

\* text = strings.ToLower(text); var foundTerms []string
FtLower ==
    /\ ft.pc = "call"
    /\ ft' = [ft EXCEPT !.pc = "loop", !.text = ToLower(ft.text), !.i = 1]
    /\ UNCHANGED sessionVars

\* one pass of for _, term := range terms
FtIter ==
    /\ ft.pc = "loop"
    /\ ft.i <= Len(ft.terms)
    /\ ft' = [ft EXCEPT !.found = FoundStep(ft.text, ft.terms[ft.i], ft.found),
                        !.i = ft.i + 1]
    /\ UNCHANGED sessionVars

\* return foundTerms
FtReturn ==
    /\ ft.pc = "loop"
    /\ ft.i > Len(ft.terms)
    /\ ft' = [ft EXCEPT !.pc = "ret"]
    /\ UNCHANGED sessionVars

MatchNext == FtLower \/ FtIter \/ FtReturn

MatchSpec == MatchInit /\ [][MatchNext]_vars

\* ===================================================================
\* Properties
\* ===================================================================

\* the elementwise reading of "sub occurs in s at offset off"
OccursAt(sub, s, off) ==
    /\ off + Len(sub) <= Len(s)
    /\ \A k \in 1..Len(sub) : s[off + k] = sub[k]

\* term matches text: its lower-cased form occurs in the lower-cased text
Matches(term, text) ==
    \E off \in 0..Len(text) : OccursAt(ToLower(term), ToLower(text), off)

\* out lists exactly the entries of ts that match text, in the order of ts,
\* one output entry per matching input entry
IsMatchList(out, text, ts) ==
    \E f \in [1..Len(out) -> 1..Len(ts)] :
        /\ \A j, k \in 1..Len(out) : j < k => f[j] < f[k]
        /\ {f[k] : k \in 1..Len(out)} = {i \in 1..Len(ts) : Matches(ts[i], text)}
        /\ \A k \in 1..Len(out) : out[k] = ts[f[k]]

\* C8: when foundTerms returns, its result holds exactly the terms whose
\* lower-cased form is a substring of the lower-cased text, in input order,
\* one entry per matching input entry (none matching: the empty list)
C8_FoundTermsExact ==
    ft.pc = "ret" =>
        /\ IsMatchList(ft.found, ft.arg, ft.terms)
        /\ foundTerms(ft.arg, ft.terms) = ft.found
        /\ (\A i \in 1..Len(ft.terms) : ~Matches(ft.terms[i], ft.arg)) => ft.found = <<>>

\* a returned call in which text and terms differ in case and both terms
\* matched, listed in term order although they occur in the text the other
\* way round
C8_Witness ==
    /\ ft.pc = "ret"
    /\ ft.arg = <<"A", "b">>
    /\ ft.terms = << <<"B">>, <<"a">> >>
    /\ ft.found = << <<"B">>, <<"a">> >>

\* ------------------------------------------------- the delivery channel
\* C3: tweetsChan is closed at most once, by the pump's step from the top
\* of its loop to its end and by no other step, and once it is closed the
\* pump stays terminated: nothing is sent or received on it any more
C3_ClosedOnceByPump ==
    /\ [](chanCloses <= 1 /\ (chanClosed <=> chanCloses = 1)
          /\ (chanClosed => pumpPc = "done" /\ t = NoTweet))
    /\ [][/\ chanCloses' # chanCloses =>
               pumpPc = "idle" /\ pumpPc' = "done" /\ chanCloses' = chanCloses + 1
          /\ pumpPc' = "done" => chanClosed'
          /\ chanClosed =>
               chanClosed' /\ pumpPc' = "done" /\ delivered' = delivered]_vars

\* the session has ended after the consumer received a record
C3_Witness == chanClosed /\ chanCloses = 1 /\ pumpPc = "done" /\ Len(delivered) >= 1

\* the pump steps that report a failure in the code: http.NewRequest's error,
\* client.Do's error, a status other than 200, decoder.Decode's error
FailureStep ==
    \/ pumpPc = "build" /\ pumpPc' \notin {"build", "do"}
    \/ pumpPc = "dial_net" /\ pumpPc' \notin {"dial_net", "dial_store"}
    \/ pumpPc = "await" /\ pumpPc' \notin {"await", "scan", "decode"}
    \/ pumpPc = "scan" /\ pumpPc' # "scan"
    \/ pumpPc = "decode" /\ pumpPc' \notin {"decode", "send"}

\* C4: the channel is never closed while ctx is not done; each failure step
\* takes the pump to the top of its loop and leaves the channel open, however
\* many failures came before; and the top of the loop, with ctx not done,
\* goes on to build the next request
C4_OnlyCancellationEnds ==
    /\ [](chanClosed => ctxDone)
    /\ [](pumpPc = "done" => ctxDone)
    /\ [][/\ FailureStep => pumpPc' = "idle" /\ ~chanClosed' /\ fails' >= fails
          /\ (pumpPc = "idle" /\ ~ctxDone /\ pumpPc' # "idle") => pumpPc' = "build"
          /\ (pumpPc' = "done" /\ pumpPc # "done") => pumpPc = "idle" /\ ctxDone]_vars

\* after MaxFails failures in a row, the last one a status other than 200,
\* the pump is building the next request
C4_Witness ==
    /\ fails = MaxFails
    /\ lastFail.kind = "status"
    /\ pumpPc = "build"
    /\ ~ctxDone /\ ~chanClosed

\* the Tweets the consumer received from handle h, in order
FromConn(h) == SelectSeq(delivered, LAMBDA d : d.conn = h)

\* C5: a response with a status other than 200 delivers nothing: the pump
\* decodes and sends only under a 200 response, a handle that answered
\* otherwise never contributes a record, the status branch goes to the top
\* of the loop with the channel open, and a later 200 response is decoded
C5_NonOKDeliversNothing ==
    /\ [](pumpPc \in {"decode", "send"} => status = StatusOK /\ cur \notin nonOK)
    /\ [](\A i \in 1..Len(delivered) : delivered[i].conn \notin nonOK)
    /\ [](nonOK # {} /\ pumpPc = "decode" /\ HasRecord(rbuf) => ENABLED PumpDecode)
    /\ [][/\ pumpPc = "scan" =>
               delivered' = delivered /\ pumpPc' \in {"scan", "idle"} /\ ~chanClosed'
          /\ (pumpPc = "await" /\ status # 0 /\ status # StatusOK) =>
               pumpPc' \in {"await", "scan", "idle"}]_vars

\* handle 1 answered with another status, and the consumer then received a
\* record of the 200 response on handle 2, with ctx not done
C5_Witness ==
    /\ nonOK = {1}
    /\ Len(FromConn(2)) >= 1
    /\ ~ctxDone /\ ~chanClosed

\* ---------------------------------------------------------- the decode loop
\* C6: the records delivered from the current 200 response are, in order,
\* the first records of its body, each with its own text and the terms that
\* match that text; and when the body of N whole records ends while the
\* socket was never closed under the pump, all N have been delivered
C6_AllRecordsInOrder ==
    /\ [](pumpPc \in {"decode", "send"} =>
            /\ Len(FromConn(cur)) <= Len(sentRecs)
            /\ \A i \in 1..Len(FromConn(cur)) :
                 /\ FromConn(cur)[i].Text = sentRecs[i]
                 /\ IsMatchList(FromConn(cur)[i].Terms, sentRecs[i], terms)
            /\ pumpPc = "send" =>
                 /\ Len(FromConn(cur)) < Len(sentRecs)
                 /\ t.Text = sentRecs[Len(FromConn(cur)) + 1]
                 /\ IsMatchList(t.Terms, t.Text, terms))
    /\ [][(/\ pumpPc = "decode" /\ pumpPc' = "idle"
           /\ cur \in open /\ srvEOF /\ rbuf = <<>> /\ wire = <<>>)
          => Len(FromConn(cur)) = Len(sentRecs)]_vars

\* a body of two records with different texts has ended, the socket is still
\* open, and the consumer holds both records with different term lists
C6_Witness ==
    /\ pumpPc = "decode" /\ cur \in open /\ srvEOF
    /\ rbuf = <<>> /\ wire = <<>>
    /\ Len(sentRecs) = 2 /\ sentRecs[1] # sentRecs[2]
    /\ Len(FromConn(cur)) = 2
    /\ FromConn(cur)[1].Terms # FromConn(cur)[2].Terms

\* strings.Split(s, ","), to read a track parameter back
RECURSIVE SplitAcc(_, _, _)
SplitAcc(s, i, piece) ==
    IF i > Len(s) THEN <<piece>>
    ELSE IF s[i] = "," THEN <<piece>> \o SplitAcc(s, i + 1, <<>>)
    ELSE SplitAcc(s, i + 1, Append(piece, s[i]))

\* the pump reads a socket that was closed under it, with no whole record
\* left in the decoder
Severed == pumpPc = "decode" /\ cur \notin open /\ ~HasRecord(rbuf)

\* C7: a pump decoding on a socket closed under it gets the decode error;
\* the step it takes then goes to the top of the loop and delivers nothing
\* (a record is sent only when the server sent it whole); from there, with
\* ctx not done, it builds a request, and every request it issues carries
\* exactly the terms given to Run
C7_ReconnectAfterRecycle ==
    /\ [](Severed => ENABLED PumpDecodeErr)
    /\ [](pumpPc = "send" => t.Text \in Range(sentRecs))
    /\ [](pumpPc \in {"do", "dial_close", "dial_net", "dial_store", "await"}
            => SplitAcc(req.track, 1, <<>>) = terms)
    /\ [][/\ (Severed /\ pumpPc' # "decode") =>
               pumpPc' = "idle" /\ delivered' = delivered /\ ~chanClosed'
          /\ (pumpPc = "idle" /\ ~ctxDone /\ pumpPc' # "idle") => pumpPc' = "build"
          /\ (pumpPc = "build" /\ pumpPc' \notin {"build", "idle"}) => pumpPc' = "do"
          /\ terms' = terms]_vars

\* the recycler's timer closed the socket while the decoder held half a
\* record; nothing was delivered, ctx is not done, and the pump stands at
\* client.Do with a request for the same terms
C7_Witness ==
    /\ pumpPc = "do"
    /\ lastFail = [kind |-> "severed", partial |-> TRUE]
    /\ ~ctxDone
    /\ delivered = <<>>
    /\ req.track = <<"a", "b", ",", "B">>

\* ------------------------------------------------------------ the registry
\* C9: the dial hook finding the slot empty closes nothing; finding a handle
\* there it closes that handle and empties the slot before it dials, so the
\* old handle is closed when the new one is stored; the recycler finding a
\* handle closes it and empties the slot; finding the slot empty it closes
\* nothing and changes nothing
C9_RegistrySequence ==
    [][/\ (pumpPc = "dial_close" /\ pumpPc' = "dial_net") =>
            /\ conn' = 0 /\ relOld' = conn
            /\ IF conn = 0
                 THEN open' = open /\ regCloses' = regCloses
                 ELSE /\ open' = open \ {conn}
                      /\ regCloses'[conn] = regCloses[conn] + 1
       /\ (pumpPc = "dial_store" /\ pumpPc' = "await") =>
            /\ conn = 0 /\ conn' = netc /\ netc \in open'
            /\ relOld # 0 => relOld \notin open'
            /\ open' = open
       /\ (rpc \in {"done_close", "timer_close"} /\ rpc' # rpc) =>
            IF conn = 0
              THEN /\ conn' = 0 /\ open' = open /\ regCloses' = regCloses
                   /\ rpc' \in {"done", "select"}
              ELSE /\ open' = open \ {conn}
                   /\ rpc' \in {"done_clear", "timer_clear"}
       /\ (rpc \in {"done_clear", "timer_clear"} /\ rpc' # rpc) =>
            conn' = 0 /\ conn \notin open /\ open' = open]_vars

\* the four operations happened in a row: handle 1 stored in the empty slot,
\* handle 2 stored with handle 1 closed, the recycler closing handle 2, the
\* recycler finding the slot empty
C9_Witness ==
    /\ regSeq = 4
    /\ nDials = 2 /\ open = {} /\ conn = 0
    /\ regCloses[1] = 1 /\ regCloses[2] = 1

\* ------------------------------------------------------------ cancellation
\* the goroutines run when they can, the consumer receives what is offered,
\* a recycler waiting in its select takes the ctx.Done() case once it is
\* ready, and http.NewRequest, called with a constant method and URL, does
\* not fail for ever; the server and the timer are under no obligation
FairSpec ==
    /\ Spec
    /\ WF_vars(PumpNext)
    /\ SF_vars(PumpBuild)
    /\ WF_vars(Receive)
    /\ WF_vars(RecyclerLock \/ RecyclerClose \/ RecyclerClear)
    /\ SF_vars(RecyclerSelectDone)

\* under FairSpec a pump severed while ctx is not done arrives at client.Do
\* with its next request, unless ctx becomes done first
SeveredLeadsToRedial == (Severed /\ ~ctxDone) ~> (ctxDone \/ pumpPc = "do")

\* C1: once ctx is done, tweetsChan is eventually closed
C1_CancelClosesChannel == ctxDone ~> chanClosed

\* C2: no record the consumer receives was sent after ctx became done
C2_NoRecordAfterCancel == \A i \in 1..Len(delivered) : ~delivered[i].late

\* the pump waits on the socket of the current response and can take no step
BlockedOnRead == pumpPc \in {"await", "scan", "decode"} /\ ~ENABLED PumpNext

\* C10: never is ctx done, the recycler terminated, and the pump blocked
\* reading a socket that is open and registered
C10_CancelUnblocksRead ==
    ~(ctxDone /\ rpc = "done" /\ BlockedOnRead /\ cur \in open /\ conn = cur)

\* ------------------------------------------------------------ the send
\* the pump stands at tweetsChan <- t and can take no step of its own: only
\* a receive by the consumer lets it go on
BlockedOnSend == pumpPc = "send" /\ ~ENABLED PumpNext

\* C11: never is the pump blocked on its send after the socket of the
\* current response was closed under it (a recycle), or after ctx is done
\* and the recycler has closed what it found and terminated (a cancellation)
C11_SendAbandonedOnLoss ==
    ~(BlockedOnSend /\ (cur \notin open \/ (ctxDone /\ rpc = "done")))

\* ------------------------------------------------- one handle at a time
\* C12: every open handle is the one in the slot or the one the hook has
\* just dialed and not stored yet, so of the handles ever stored at most one
\* is open and it is the one in the slot; and when the hook is about to
\* store, the slot is empty and the handle it found there is closed
C12_OneOpenHandle ==
    /\ \A h \in open : h = conn \/ h = netc
    /\ Cardinality(open \ {netc}) <= 1
    /\ pumpPc \in {"dial_net", "dial_store"} =>
         /\ conn = 0
         /\ relOld # 0 => relOld \notin open
    /\ pumpPc = "dial_store" => open = {netc}

\* the hook found handle 1 in the slot, still open after a response with
\* another status, closed it, and stored handle 2: only handle 2 is open
C12_Witness ==
    /\ regSeq = 2 /\ nonOK = {1}
    /\ regCloses[1] = 1
    /\ conn = 2 /\ open = {2}
    /\ pumpPc = "await"

\* C13: while the pump waits for a response, reads the body or stands at
\* its send on a socket that is open, that socket is the handle in the slot;
\* and a recycler close taken then closes that socket and no other
C13_SlotIsPumpSocket ==
    /\ [](OnConn /\ cur \in open => conn = cur)
    /\ [][(/\ rpc \in {"done_close", "timer_close"} /\ rpc' # rpc
           /\ OnConn /\ cur \in open)
          => cur \notin open' /\ open' = open \ {cur}
             /\ regCloses'[cur] = regCloses[cur] + 1]_vars

\* the recycler's timer branch has just closed handle 2, the second socket
\* of the session, while the pump was decoding its body
C13_Witness ==
    /\ rpc = "timer_clear"
    /\ pumpPc = "decode" /\ status = StatusOK
    /\ cur = 2 /\ conn = 2 /\ 2 \notin open
    /\ regCloses[2] = 1

\* ------------------------------------------------------------- the lock
\* the hook between its Lock and its deferred Unlock; the recycler between
\* its Lock and its Unlock
InDialHook == pumpPc \in {"dial_close", "dial_net", "dial_store"}
InRecyclerClose == rpc \in {"done_close", "timer_close", "done_clear", "timer_clear"}

\* C14: the hook's close-old/dial/store and the recycler's close-and-clear
\* never overlap, each runs exactly while its side holds connLock, no handle
\* is closed twice through the slot, and a handle closed through the slot
\* stays in it only until the same lock hold clears it
C14_LockLinearizes ==
    /\ ~(InDialHook /\ InRecyclerClose)
    /\ InDialHook <=> connLock = "dial"
    /\ InRecyclerClose <=> connLock = "recycler"
    /\ \A h \in Handles : regCloses[h] <= 1
    /\ (conn # 0 /\ regCloses[conn] >= 1) =>
         connLock = "recycler" /\ rpc \in {"done_clear", "timer_clear"}

\* the hook holds the lock, has closed the handle it found and is dialing,
\* while the recycler, its timer fired, waits in Lock
C14_Witness ==
    /\ connLock = "dial" /\ pumpPc = "dial_net"
    /\ relOld # 0 /\ regCloses[relOld] = 1
    /\ rpc = "timer_lock"

\* ------------------------------------------------------------ the recycler
\* C15: the recycler is in its ctx.Done() branch or terminated only when ctx
\* is done; terminated, it has released the lock, can take no step and stays
\* terminated, and every later close through the slot is the hook's; the
\* timer branch closes the handle it finds, empties the slot and goes back
\* to the select, the ctx.Done() branch closes the handle it finds, just
\* that one, empties the slot and terminates
C15_RecyclerLifecycle ==
    /\ [](rpc \in {"done_lock", "done_close", "done_clear", "done"} => ctxDone)
    /\ [](rpc = "done" => ~ENABLED RecyclerNext /\ connLock # "recycler")
    /\ [][/\ rpc = "done" =>
               /\ rpc' = "done"
               /\ regCloses' # regCloses => pumpPc = "dial_close"
          /\ (rpc \in {"timer_close", "done_close"} /\ rpc' # rpc) =>
               IF conn = 0
                 THEN /\ regCloses' = regCloses /\ conn' = 0
                      /\ rpc' = (IF rpc = "timer_close" THEN "select" ELSE "done")
                 ELSE /\ conn \notin open'
                      /\ regCloses' = [regCloses EXCEPT ![conn] = @ + 1]
                      /\ rpc' = (IF rpc = "timer_close" THEN "timer_clear"
                                                        ELSE "done_clear")
          /\ (rpc \in {"timer_clear", "done_clear"} /\ rpc' # rpc) =>
               /\ conn' = 0 /\ regCloses' = regCloses /\ connLock' = "free"
               /\ rpc' = (IF rpc = "timer_clear" THEN "select" ELSE "done")
          /\ (rpc' = "done" /\ rpc # "done") =>
               rpc \in {"done_close", "done_clear"} /\ ctxDone]_vars

\* handle 2 was stored in an empty slot with handle 1 closed through the
\* slot, so the timer branch had closed handle 1 and the recycler went on;
\* now, ctx done, its ctx.Done() branch has closed handle 2 and is about to
\* empty the slot and return
C15_Witness ==
    /\ rpc = "done_clear" /\ ctxDone
    /\ regSeq = 1
    /\ regCloses[1] = 1
    /\ conn = 2 /\ regCloses[2] = 1 /\ open = {}

\* ------------------------------------------------------- the top of the loop
\* C16: at the top of its loop with ctx done the pump can only terminate,
\* and does so with no request built and nothing dialed or stored; it builds
\* a request only coming from the top of the loop with ctx not done, and
\* reaches client.Do, the hook, net.DialTimeout and the store only one from
\* the other in that order, so every dial follows a check of the same
\* iteration that found ctx not done
C16_CheckBeforeRequest ==
    /\ [](pumpPc = "idle" /\ ctxDone => ENABLED PumpCheckCtx /\ ~ENABLED PumpBuild)
    /\ [][/\ (pumpPc = "idle" /\ ctxDone /\ pumpPc' # "idle") =>
               /\ pumpPc' = "done"
               /\ req' = req /\ nDials' = nDials /\ conn' = conn /\ open' = open
          /\ (pumpPc' = "build" /\ pumpPc # "build") => pumpPc = "idle" /\ ~ctxDone
          /\ (pumpPc' = "do" /\ pumpPc # "do") => pumpPc = "build"
          /\ (pumpPc' = "dial_close" /\ pumpPc # "dial_close") => pumpPc = "do"
          /\ (pumpPc' = "dial_net" /\ pumpPc # "dial_net") => pumpPc = "dial_close"
          /\ (pumpPc' = "dial_store" /\ pumpPc # "dial_store") => pumpPc = "dial_net"
          /\ nDials' # nDials => pumpPc = "dial_net" /\ pumpPc' = "dial_store"
          /\ req' # req => pumpPc = "build"]_vars

\* one request was issued and one socket dialed; the socket was closed under
\* the decoder, the pump came back to the top of its loop, found ctx done
\* and terminated with no second request
C16_Witness ==
    /\ pumpPc = "done" /\ ctxDone
    /\ nDials = 1
    /\ lastFail.kind = "severed"
    /\ req = NewRequest

\* ------------------------------------------------------- decode failures
\* C17: when decoder.Decode fails (closed socket, input that is not JSON,
\* end of stream) the pump can only leave the loop: that step delivers
\* nothing, closes the connection of the response and goes to the top of
\* the loop, which ends the pump if ctx is done and builds a request if not;
\* a record is delivered only from the connection being decoded, and every
\* other connection a record came from is closed and never decoded again
C17_DecodeFailureEndsConnection ==
    /\ [](pumpPc = "decode" /\ DecodeFails =>
            ENABLED PumpDecodeErr /\ ~ENABLED PumpDecode /\ ~ENABLED PumpRead)
    /\ [](pumpPc \in {"idle", "build", "do"} => cur = 0)
    /\ [](\A i \in 1..Len(delivered) :
            delivered[i].conn # cur => delivered[i].conn \notin open)
    /\ [][/\ (/\ pumpPc = "decode" /\ DecodeFails
              /\ (pumpPc' # pumpPc \/ rbuf' # rbuf)) =>
               /\ pumpPc' = "idle"
               /\ delivered' = delivered /\ t' = t
               /\ cur \notin open' /\ cur' = 0
               /\ lastFail'.kind \in {"garbage", "severed", "eof"}
          /\ (pumpPc = "decode" /\ pumpPc' = "idle") => DecodeFails
          /\ (pumpPc = "idle" /\ pumpPc' # "idle") =>
               pumpPc' = (IF ctxDone THEN "done" ELSE "build")
          /\ delivered' # delivered =>
               /\ pumpPc = "send" /\ cur \in Handles
               /\ Len(delivered') = Len(delivered) + 1
               /\ delivered'[Len(delivered')].conn = cur
          /\ (cur' # cur /\ cur' # 0) =>
               /\ cur = 0
               /\ \A i \in 1..Len(delivered) : delivered[i].conn # cur']_vars

\* the first connection delivered a record and then sent something that is
\* not JSON; the pump left it closed and, ctx not done, builds the next
\* request
C17_Witness ==
    /\ pumpPc = "build" /\ ~ctxDone
    /\ lastFail.kind = "garbage"
    /\ Len(delivered) = 1 /\ delivered[1].conn = 1
    /\ 1 \notin open /\ cur = 0

\* ------------------------------------------------ who touches the channel
\* C18: a step of the recycler leaves the channel, the record at the send,
\* what was delivered, the decoder's buffer and the pump's position as they
\* were; the channel is closed only by the pump's step from the top of its
\* loop to its end, and a record arrives at the send only by the pump's
\* step out of a decode
C18_RecyclerLeavesChannel ==
    [][/\ rpc' # rpc =>
            UNCHANGED <<t, chanClosed, chanCloses, delivered, rbuf, wire, cur,
                        status, sentRecs, req, pumpPc, fails, lastFail>>
       /\ (chanClosed' # chanClosed \/ chanCloses' # chanCloses) =>
            rpc' = rpc /\ pumpPc = "idle" /\ pumpPc' = "done"
       /\ (t' # t /\ t' # NoTweet) =>
            rpc' = rpc /\ pumpPc = "decode" /\ pumpPc' = "send"
       /\ delivered' # delivered => rpc' = rpc /\ pumpPc = "send"]_vars

\* the recycler has closed the socket of the current response, emptied the
\* slot and terminated, all while the pump stood at its send; the channel
\* is open and the record is still there
C18_Witness ==
    /\ rpc = "done"
    /\ pumpPc = "send" /\ t # NoTweet /\ ~chanClosed
    /\ regCloses[cur] = 1 /\ conn = 0
    /\ Len(delivered) >= 1

\* ------------------------------------------------------ the end of a session
\* both goroutines of the session have returned
SessionOver == pumpPc = "done" /\ chanClosed /\ rpc = "done"

\* C19: once the pump and the recycler have both returned, the slot is
\* empty and no handle the session dialed is open
C19_NoSocketOutlivesSession == SessionOver => conn = 0 /\ open = {}

====
